---------------------------- MODULE Spec2Model ----------------------------
(***************************************************************************)
(* Model of the network synchronization core of the game client:          *)
(* GameScene in game_server_hw02/client/src/framework/scene/game_scene.rs. *)
(*                                                                         *)
(* The scene value is the GameScene struct.  Text received from the       *)
(* server is a sequence of atoms: a word (a maximal run of non-whitespace *)
(* characters), SP (a run of blanks) or NL (one line feed).  Rust's       *)
(* 0-based indexing msg[k] is written At(msg, k).                          *)
(***************************************************************************)
EXTENDS Integers, Sequences, FiniteSets, TLC

VARIABLES
    scene,      \* the GameScene struct, the Model Registry call counts, the panic
    pc,         \* "new": constructed; "idle": between ticks; "poll": update calls
                \* pull_messages; "process": update is in process_messages
    depth,      \* recursion depth of the running pull_messages call
    attempts,   \* reconnect attempts made by the current top-level pull_messages call
    polled,     \* what the last finished top-level pull_messages call returned
    messages,   \* process_messages: the lines its loop has still to process
    lastWrite,  \* the last write_all on the stream: its bytes and its outcome
    hist,       \* history: the last command line given to process_message
    reads       \* number of reads that returned data so far

vars == <<scene, pc, depth, attempts, polled, messages, lastWrite, hist, reads>>

-----------------------------------------------------------------------------
(* Bounds of the model *)

\* reads that return data, over the whole run
MaxReads == 2
\* successful reconnects, over the whole run
MaxReconnects == 1

-----------------------------------------------------------------------------
(* Text *)

NL == "\n"
SP == " "

IsWhitespace(a) == a \in {NL, SP}

\* the words of one command, separated by single blanks
RECURSIVE Cmd(_)
Cmd(words) ==
    IF Len(words) <= 1 THEN words
    ELSE <<Head(words), SP>> \o Cmd(Tail(words))

\* str::trim: leading and trailing whitespace removed
RECURSIVE trim_start(_)
trim_start(t) ==
    IF Len(t) > 0 /\ IsWhitespace(Head(t)) THEN trim_start(Tail(t)) ELSE t

RECURSIVE trim_end(_)
trim_end(t) ==
    IF Len(t) > 0 /\ IsWhitespace(t[Len(t)])
    THEN trim_end(SubSeq(t, 1, Len(t) - 1)) ELSE t

trim(t) == trim_end(trim_start(t))

\* str::split("\n"): the pieces between line feeds, empty pieces included
RECURSIVE split_lines(_, _)
split_lines(t, cur) ==
    IF Len(t) = 0 THEN <<cur>>
    ELSE IF Head(t) = NL THEN <<cur>> \o split_lines(Tail(t), <<>>)
    ELSE split_lines(Tail(t), Append(cur, Head(t)))

\* str::split_whitespace: the words, no empty ones
split_whitespace(t) == SelectSeq(t, LAMBDA a : ~IsWhitespace(a))

\* Rust indexing
At(msg, k) == msg[k + 1]
InBounds(msg, k) == k < Len(msg)

-----------------------------------------------------------------------------
(* Numbers *)

\* The decimal words of the model and the integers they denote.  Every value
\* here lies in the range of u32, usize and i32 at once unless it is negative.
IntLiteral ==
    ("0" :> 0) @@ ("1" :> 1) @@ ("2" :> 2) @@ ("3" :> 3) @@ ("4" :> 4) @@
    ("5" :> 5) @@ ("6" :> 6) @@ ("7" :> 7) @@ ("9" :> 9) @@ ("+7" :> 7) @@
    ("-1" :> -1) @@ ("16777217" :> 16777217)

\* str::parse::<u32>(): a sign "-" is no digit of an unsigned integer
parse_u32(w) ==
    IF w \in DOMAIN IntLiteral /\ IntLiteral[w] >= 0
    THEN [ok |-> TRUE, v |-> IntLiteral[w]]
    ELSE [ok |-> FALSE, v |-> 0]

\* str::parse::<usize>()
parse_usize(w) ==
    IF w \in DOMAIN IntLiteral /\ IntLiteral[w] >= 0
    THEN [ok |-> TRUE, v |-> IntLiteral[w]]
    ELSE [ok |-> FALSE, v |-> 0]

\* str::parse::<i32>()
parse_i32(w) ==
    IF w \in DOMAIN IntLiteral
    THEN [ok |-> TRUE, v |-> IntLiteral[w]]
    ELSE [ok |-> FALSE, v |-> 0]

\* Display of an integer (format!("{}")): the canonical decimal word
fmt_int(v) ==
    CHOOSE w \in DOMAIN IntLiteral :
        /\ IntLiteral[w] = v
        /\ w # "+7"

\* the unit in the last place of the f32 nearest to the magnitude m
RECURSIVE f32_ulp(_, _)
f32_ulp(m, u) == IF m \div u < 16777216 THEN u ELSE f32_ulp(m, 2 * u)

\* `x as f32`: i32 to the nearest f32, ties to even (24 bits of significand)
as_f32(x) ==
    LET m == IF x < 0 THEN -x ELSE x
        u == f32_ulp(m, 1)
        q == m \div u
        r == m % u
        n == IF 2 * r < u THEN q
             ELSE IF 2 * r > u THEN q + 1
             ELSE IF q % 2 = 0 THEN q ELSE q + 1
    IN  IF x < 0 THEN -(n * u) ELSE n * u

-----------------------------------------------------------------------------
(* The Model Registry (model.rs and object.rs) seen from the scene *)

\* Object::model when no model is set
NoModel == -1

\* Object::new(): at the origin, bound to no model.  Of transform.position
\* the model keeps x and z: the scene never writes the y of a server entity.
NewObject == [x |-> 0, z |-> 0, model |-> NoModel]

\* Object::set_model(&mut models[m]): the object refers to the model ...
set_model(object, m) == [object EXCEPT !.model = m]

\* ... and the model gets one instance, for the object's transform
attach_instance(models, m) == [models EXCEPT ![m + 1] = @ + 1]

\* Model::remove_instance(&object.transform) on the model m
remove_instance(models, m) == [models EXCEPT ![m + 1] = @ - 1]

\* a panic: the message of the first one is kept, nothing runs after it
Panic(s, why) == IF s.panic = "" THEN [s EXCEPT !.panic = why] ELSE s

Panicked(s) == s.panic # ""

-----------------------------------------------------------------------------
(* GameScene::process_message *)

\* the index in models of the model of the player's own entity ...
PlayerModel == 2
\* ... and of the model of every other server entity
DefaultModel == 3

\* a variant of select_model: every entity on the default model
select_model_default(s, id) == DefaultModel

\* the model a new server entity is bound to
select_model(s, id) == IF id = s.player_id THEN PlayerModel ELSE DefaultModel

\* The else branch of the lookup: insert a new Object under id, then bind it.
\* Indexing self.models past its length panics after the insert.
create_object(s, id) ==
    LET m  == select_model(s, id)
        s1 == [s EXCEPT !.objects_from_server =
                            @ @@ (id :> NewObject)]
    IN  IF m >= Len(s1.models)
        THEN Panic(s1, "index out of bounds: models")
        ELSE [s1 EXCEPT !.objects_from_server[id] = set_model(@, m),
                        !.models = attach_instance(@, m),
                        !.attach_calls = @ + 1]

\* a variant of apply_triple: the entity is created anew at each listing
apply_triple_recreate(s, id, x, z) ==
    LET s1 == create_object(s, id)
    IN  IF Panicked(s1) THEN s1
        ELSE [s1 EXCEPT !.objects_from_server[id].x = as_f32(x),
                        !.objects_from_server[id].z = as_f32(z)]

\* a variant of apply_triple: an entity that is present is left where it is
apply_triple_no_overwrite(s, id, x, z) ==
    IF id \in DOMAIN s.objects_from_server THEN s
    ELSE LET s1 == create_object(s, id)
         IN  IF Panicked(s1) THEN s1
             ELSE [s1 EXCEPT !.objects_from_server[id].x = as_f32(x),
                             !.objects_from_server[id].z = as_f32(z)]

\* a variant of apply_triple: the model of an entity that is present is
\* chosen again
apply_triple_rebinds(s, id, x, z) ==
    LET s1 == IF id \in DOMAIN s.objects_from_server
              THEN [s EXCEPT !.objects_from_server[id] =
                                 set_model(@, select_model(s, id))]
              ELSE create_object(s, id)
    IN  IF Panicked(s1) THEN s1
        ELSE [s1 EXCEPT !.objects_from_server[id].x = as_f32(x),
                        !.objects_from_server[id].z = as_f32(z)]

\* One triple: the entity is looked up or created, then moved to (x, z)
apply_triple(s, id, x, z) ==
    LET s1 == IF id \in DOMAIN s.objects_from_server
              THEN s
              ELSE create_object(s, id)
    IN  IF Panicked(s1) THEN s1
        ELSE [s1 EXCEPT !.objects_from_server[id].x = as_f32(x),
                        !.objects_from_server[id].z = as_f32(z)]

\* The loop over the triples, from the i-th on; valid_ids is the Vec of the
\* ids met so far.  Reading a field past the end of msg panics, and so does
\* unwrap() on a field that does not parse.
RECURSIVE update_loop(_, _, _, _, _)
update_loop(s, msg, i, num_objects, valid_ids) ==
    IF i >= num_objects THEN [s |-> s, valid_ids |-> valid_ids]
    ELSE
        LET idx  == 2 + i * 3
            stop(why) == [s |-> Panic(s, why), valid_ids |-> valid_ids]
        IN  IF ~InBounds(msg, idx) THEN stop("index out of bounds: msg")
            ELSE IF ~parse_u32(At(msg, idx)).ok THEN stop("unwrap on Err: id")
            ELSE IF ~InBounds(msg, idx + 1) THEN stop("index out of bounds: msg")
            ELSE IF ~parse_i32(At(msg, idx + 1)).ok THEN stop("unwrap on Err: x")
            ELSE IF ~InBounds(msg, idx + 2) THEN stop("index out of bounds: msg")
            ELSE IF ~parse_i32(At(msg, idx + 2)).ok THEN stop("unwrap on Err: z")
            ELSE
                LET id == parse_u32(At(msg, idx)).v
                    x  == parse_i32(At(msg, idx + 1)).v
                    z  == parse_i32(At(msg, idx + 2)).v
                    s1 == apply_triple(s, id, x, z)
                IN  IF Panicked(s1) THEN [s |-> s1, valid_ids |-> valid_ids]
                    ELSE update_loop(s1, msg, i + 1, num_objects,
                                     Append(valid_ids, id))

Range(f) == {f[i] : i \in DOMAIN f}

\* objects_from_server.retain: the entities whose id is not in valid_ids
\* are dropped, each after its model instance is removed
RECURSIVE release_all(_, _, _)
release_all(s, objs, gone) ==
    IF gone = {} THEN s
    ELSE
        LET k  == CHOOSE k \in gone : TRUE
            m  == objs[k].model
            s1 == IF m # NoModel
                  THEN [s EXCEPT !.models = remove_instance(@, m),
                                 !.remove_calls = @ + 1]
                  ELSE s
        IN  release_all(s1, objs, gone \ {k})

\* a variant of retain: no entity is dropped
retain_keeps_all(s, valid_ids) == s

\* a variant of retain: the entities are dropped with their instances left
\* in the models
retain_no_release(s, valid_ids) ==
    LET objs == s.objects_from_server
        keep == {k \in DOMAIN objs : k \in Range(valid_ids)}
    IN  [s EXCEPT !.objects_from_server = [k \in keep |-> objs[k]]]

retain(s, valid_ids) ==
    LET objs == s.objects_from_server
        keep == {k \in DOMAIN objs : k \in Range(valid_ids)}
        s1   == release_all(s, objs, DOMAIN objs \ keep)
    IN  [s1 EXCEPT !.objects_from_server = [k \in keep |-> objs[k]]]

\* a variant of the "init" arm: the player id is assigned once
init_arm_first_wins(s, msg) ==
    IF Len(msg) < 2 THEN s
    ELSE IF ~parse_u32(At(msg, 1)).ok THEN Panic(s, "unwrap on Err: player_id")
    ELSE IF s.player_id # 0 THEN s
    ELSE [s EXCEPT !.player_id = parse_u32(At(msg, 1)).v]

\* a variant of the "init" arm: the entities that are present are bound again
\* to the models the new player id gives them
init_arm_rebinds(s, msg) ==
    IF Len(msg) < 2 THEN s
    ELSE IF ~parse_u32(At(msg, 1)).ok THEN Panic(s, "unwrap on Err: player_id")
    ELSE LET s1 == [s EXCEPT !.player_id = parse_u32(At(msg, 1)).v]
         IN  [s1 EXCEPT !.objects_from_server =
                 [k \in DOMAIN @ |-> set_model(@[k], select_model(s1, k))]]

\* the "init" arm
init_arm(s, msg) ==
    IF Len(msg) < 2 THEN s
    ELSE IF ~parse_u32(At(msg, 1)).ok THEN Panic(s, "unwrap on Err: player_id")
    ELSE [s EXCEPT !.player_id = parse_u32(At(msg, 1)).v]

\* the "update" arm
update_arm(s, msg) ==
    IF Len(msg) < 2 THEN s
    ELSE IF ~parse_usize(At(msg, 1)).ok THEN Panic(s, "unwrap on Err: count")
    ELSE
        LET r == update_loop(s, msg, 0, parse_usize(At(msg, 1)).v, <<>>)
        IN  IF Panicked(r.s) THEN r.s ELSE retain(r.s, r.valid_ids)

process_message(s, line) ==
    LET msg0 == split_whitespace(trim(line))
    IN  IF Len(msg0) = 0 THEN s
        ELSE IF At(msg0, 0) # "GAMESERVER" THEN s
        ELSE
            LET msg == Tail(msg0)
            IN  IF ~InBounds(msg, 0) THEN Panic(s, "index out of bounds: verb")
                ELSE IF At(msg, 0) = "init" THEN init_arm(s, msg)
                ELSE IF At(msg, 0) = "update" THEN update_arm(s, msg)
                ELSE s

-----------------------------------------------------------------------------
(* GameScene::process_messages, with the history of the commands *)

\* the words of a line
Words(line) == split_whitespace(trim(line))

\* the line is `GAMESERVER init <u32> ...`
IsInit(line) ==
    LET w == Words(line)
    IN  /\ Len(w) >= 3
        /\ w[1] = "GAMESERVER"
        /\ w[2] = "init"
        /\ w[3] \in DOMAIN IntLiteral
        /\ IntLiteral[w[3]] >= 0

\* The history of the calls of process_message: whether there was one, the
\* line of the last call, the scene before it, whether the call before it had
\* the same line, and the value of the last init command that was applied (a
\* set: empty as long as there was none)
observe(h, s, line) ==
    [called   |-> TRUE,
     line     |-> line,
     before   |-> s,
     repeated |-> h.called /\ h.line = line,
     lastInit |-> IF IsInit(line) THEN {IntLiteral[Words(line)[3]]}
                  ELSE h.lastInit]

\* the Vec of the lines of the text
process_messages(msg) == split_lines(trim(msg), <<>>)

-----------------------------------------------------------------------------
(* What the server sends *)

\* lines joined by line feeds
RECURSIVE Lines(_)
Lines(ls) ==
    IF Len(ls) = 0 THEN <<>>
    ELSE IF Len(ls) = 1 THEN Head(ls)
    ELSE Head(ls) \o <<NL>> \o Lines(Tail(ls))

G(words) == Cmd(<<"GAMESERVER">> \o words)

Init7      == G(<<"init", "7">>)
Init9      == G(<<"init", "9">>)
Update0    == G(<<"update", "0">>)
Update79   == G(<<"update", "2", "7", "1", "2", "9", "3", "4">>)
Update9    == G(<<"update", "1", "9", "5", "6">>)
\* the id 7 listed twice, the second time written +7
Update77   == G(<<"update", "2", "7", "1", "2", "+7", "3", "4">>)
Update0id  == G(<<"update", "1", "0", "16777217", "-1">>)

\* the example of the too short command
TooFew     == G(<<"update", "3", "1", "2">>)
TooMany    == G(<<"update", "1", "7", "1", "2", "9">>)
BadX       == G(<<"update", "2", "7", "1", "2", "9", "x", "4">>)
BadCount   == G(<<"update", "x">>)
BadInit    == G(<<"init", "-1">>)
Sentinel   == G(<<>>)
\* Update9 cut in two by the reads
Update9a   == G(<<"update", "1", "9">>)
Update9b   == <<SP, "5", SP, "6">>

\* well-formed commands, each in a chunk of its own, with its line feed
WellFormedChunks ==
    {c \o <<NL>> : c \in {Init7, Init9, Update0, Update79, Update9, Update77,
                          Update0id}}

\* chunks of one command that is malformed or cut
MalformedChunks ==
    {TooFew \o <<NL>>, TooMany \o <<NL>>, BadX \o <<NL>>, BadCount \o <<NL>>,
     BadInit \o <<NL>>, Sentinel \o <<NL>>, Update9a, Update9b \o <<NL>>}

\* chunks of several lines
MultiLineChunks ==
    { Lines(<<Init7, Update79>>) \o <<NL>>,
      <<NL>> \o Lines(<<G(<<"ping", "1">>), <<>>, Cmd(<<"HELLO", "7">>), <<SP>>,
                        G(<<"update">>), G(<<"init">>),
                        <<SP>> \o Update9 \o <<SP>>>>) \o <<NL, NL>>,
      Lines(<<BadX, Update9>>) \o <<NL>>,
      Lines(<<Init9, Update9>>) \o <<NL>> }

\* what one read can return
Chunks == WellFormedChunks \cup MalformedChunks \cup MultiLineChunks

-----------------------------------------------------------------------------
(* The scene *)

\* the models of load_models, each with no instance yet
load_models(s) == [s EXCEPT !.models = <<0, 0, 0, 0>>]

\* the 64 squares of the board, square i at (i % 8, i / 8) on the model
\* (x + z) & 1
RECURSIVE attach_board(_, _)
attach_board(models, i) ==
    IF i >= 64 THEN models
    ELSE attach_board(attach_instance(models, ((i % 8) + (i \div 8)) % 2), i + 1)

build_objects(s) ==
    [s EXCEPT !.objects = [i \in 0..63 |->
                              [set_model(NewObject, ((i % 8) + (i \div 8)) % 2)
                                  EXCEPT !.x = i % 8, !.z = i \div 8]],
              !.models = attach_board(@, 0)]

\* GameScene::player
player(s) ==
    IF s.player_id \in DOMAIN s.objects_from_server
    THEN {s.objects_from_server[s.player_id]}
    ELSE {}

\* the camera looks at the player's entity, if there is one, from the offset
update_camera(s) ==
    IF player(s) = {} THEN s
    ELSE LET p == CHOOSE o \in player(s) : TRUE
         IN  [s EXCEPT !.camera = [target |-> <<p.x, p.z>>,
                                    eye    |-> <<p.x, p.z + 4>>]]

EmptyMap == [k \in {} |-> NewObject]

\* GameScene::new
new ==
    [camera |-> [target |-> <<0, 0>>, eye |-> <<0, 2>>],
     models |-> <<>>,
     objects |-> <<>>,
     objects_from_server |-> EmptyMap,
     player_id |-> 0,
     addr |-> "ip:port",
     stream |-> 0,
     attach_calls |-> 0,
     remove_calls |-> 0,
     panic |-> ""]

NoHistory ==
    [called |-> FALSE, line |-> <<>>, before |-> new, repeated |-> FALSE,
     lastInit |-> {}]

NoWrite == [bytes |-> <<>>, ok |-> TRUE]

Init ==
    /\ scene = new
    /\ pc = "new"
    /\ depth = 0
    /\ attempts = 0
    /\ polled = "nothing"
    /\ messages = <<>>
    /\ lastWrite = NoWrite
    /\ hist = NoHistory
    /\ reads = 0

\* Scene::init, which the framework calls once, before the first tick
scene_init ==
    /\ pc = "new"
    /\ scene' = build_objects(load_models(scene))
    /\ pc' = "idle"
    /\ UNCHANGED <<depth, attempts, polled, messages, lastWrite, hist, reads>>

\* stream.write_all(bytes).expect(..): a failed write panics
write_all(s, ok) == IF ok THEN s ELSE Panic(s, "Failed to write to stream")

\* the direction of a key
Direction(keycode) ==
    CASE keycode = "KeyW" -> <<0, -1>>
      [] keycode = "KeyA" -> <<-1, 0>>
      [] keycode = "KeyS" -> <<0, 1>>
      [] keycode = "KeyD" -> <<1, 0>>

MoveKeys == {"KeyW", "KeyA", "KeyS", "KeyD"}

\* the keys of the model: two that move and one that does not
KeyCodes == {"KeyW", "KeyD", "Space"}

\* Scene::handle_event on a key event that is no repeat; the value returned
\* is not kept
process_keyboard_input(state, keycode, ok) ==
    /\ pc = "idle"
    /\ ~Panicked(scene)
    /\ IF state = "Pressed" /\ keycode \in MoveKeys
       THEN /\ lastWrite' =
                  [bytes  |-> Cmd(<<"move", fmt_int(scene.player_id),
                                    fmt_int(Direction(keycode)[1]),
                                    fmt_int(Direction(keycode)[2])>>) \o <<NL>>,
                   ok     |-> ok]
            /\ scene' = write_all(scene, ok)
       ELSE UNCHANGED <<scene, lastWrite>>
    /\ UNCHANGED <<pc, depth, attempts, polled, messages, hist, reads>>

\* Scene::update, up to its loop: the request for a snapshot is sent
update_begin(ok) ==
    /\ pc = "idle"
    /\ ~Panicked(scene)
    /\ lastWrite' = [bytes |-> <<"update", NL>>, ok |-> ok]
    /\ scene' = write_all(scene, ok)
    /\ pc' = IF ok THEN "poll" ELSE pc
    /\ UNCHANGED <<depth, attempts, polled, messages, hist, reads>>

\* the reconnect attempts of the running top-level call of pull_messages
Attempts == IF depth = 0 THEN 0 ELSE attempts

\* read returns n > 0 bytes: pull_messages returns them as text, through
\* every level of its recursion, and update gives them to process_messages.
\* from_utf8_lossy turns the bytes that are no UTF-8 into U+FFFD, which is no
\* whitespace: they are part of a word, which is then no number and no verb.
read_data(chunk) ==
    /\ pc = "poll"
    /\ ~Panicked(scene)
    /\ reads < MaxReads
    /\ messages' = process_messages(chunk)
    /\ pc' = "process"
    /\ reads' = reads + 1
    /\ depth' = 0
    /\ attempts' = Attempts
    /\ polled' = "Some"
    /\ UNCHANGED <<scene, lastWrite, hist>>

\* a variant of process_next: the camera follows after every command
process_next_follows ==
    /\ pc = "process"
    /\ ~Panicked(scene)
    /\ scene' = update_camera(process_message(scene, Head(messages)))
    /\ hist' = observe(hist, scene, Head(messages))
    /\ messages' = Tail(messages)
    /\ pc' = IF Len(messages) = 1 THEN "poll" ELSE pc
    /\ UNCHANGED <<depth, attempts, polled, lastWrite, reads>>

\* one turn of the loop of process_messages; after the last one update
\* calls pull_messages again
process_next ==
    /\ pc = "process"
    /\ ~Panicked(scene)
    /\ scene' = process_message(scene, Head(messages))
    /\ hist' = observe(hist, scene, Head(messages))
    /\ messages' = Tail(messages)
    /\ pc' = IF Len(messages) = 1 THEN "poll" ELSE pc
    /\ UNCHANGED <<depth, attempts, polled, lastWrite, reads>>

\* pull_messages returns None: the loop of update ends, the camera follows
end_of_loop(s) == update_camera(s)

\* a variant of read_closed: the closed connection is replaced by a new one
read_closed_reconnects ==
    /\ pc = "poll"
    /\ ~Panicked(scene)
    /\ scene' = end_of_loop([scene EXCEPT !.stream = @ + 1])
    /\ pc' = "idle"
    /\ depth' = 0
    /\ attempts' = Attempts + 1
    /\ polled' = "None: closed"
    /\ UNCHANGED <<messages, lastWrite, hist, reads>>

\* read returns 0 bytes: the peer closed the connection
read_closed ==
    /\ pc = "poll"
    /\ ~Panicked(scene)
    /\ scene' = end_of_loop(scene)
    /\ pc' = "idle"
    /\ depth' = 0
    /\ attempts' = Attempts
    /\ polled' = "None: closed"
    /\ UNCHANGED <<messages, lastWrite, hist, reads>>

\* a variant of read_would_block: WouldBlock handled as the other errors
\* are, by a reconnect
read_would_block_reconnects ==
    /\ pc = "poll"
    /\ ~Panicked(scene)
    /\ scene' = end_of_loop([scene EXCEPT !.stream = @ + 1])
    /\ pc' = "idle"
    /\ depth' = 0
    /\ attempts' = Attempts + 1
    /\ polled' = "None: would block"
    /\ UNCHANGED <<messages, lastWrite, hist, reads>>

\* read fails with WouldBlock: no data now
read_would_block ==
    /\ pc = "poll"
    /\ ~Panicked(scene)
    /\ scene' = end_of_loop(scene)
    /\ pc' = "idle"
    /\ depth' = 0
    /\ attempts' = Attempts
    /\ polled' = "None: would block"
    /\ UNCHANGED <<messages, lastWrite, hist, reads>>

\* read fails with another error and the connect to addr succeeds: the
\* stream is replaced and pull_messages calls itself
read_error_reconnected(nonblocking_ok) ==
    /\ pc = "poll"
    /\ ~Panicked(scene)
    /\ scene.stream < MaxReconnects
    /\ scene' =
          LET s1 == [scene EXCEPT !.stream = @ + 1]
          IN  IF nonblocking_ok THEN s1
              ELSE Panic(s1, "unwrap on Err: set_nonblocking")
    /\ depth' = depth + 1
    /\ attempts' = Attempts + 1
    /\ UNCHANGED <<pc, polled, messages, lastWrite, hist, reads>>

\* read fails with another error and the connect fails too: None
read_error_reconnect_failed ==
    /\ pc = "poll"
    /\ ~Panicked(scene)
    /\ scene' = end_of_loop(scene)
    /\ pc' = "idle"
    /\ depth' = 0
    /\ attempts' = Attempts + 1
    /\ polled' = "None: reconnect failed"
    /\ UNCHANGED <<messages, lastWrite, hist, reads>>

Next ==
    \/ scene_init
    \/ \E state \in {"Pressed", "Released"}, keycode \in KeyCodes, ok \in BOOLEAN :
           process_keyboard_input(state, keycode, ok)
    \/ \E ok \in BOOLEAN : update_begin(ok)
    \/ \E chunk \in Chunks : read_data(chunk)
    \/ process_next
    \/ read_closed
    \/ read_would_block
    \/ \E nonblocking_ok \in BOOLEAN : read_error_reconnected(nonblocking_ok)
    \/ read_error_reconnect_failed

Spec == Init /\ [][Next]_vars

\* what a server that has data for every read sends: the player's id and the
\* snapshot of one entity
SteadyChunks == {Init9 \o <<NL>>, Update9 \o <<NL>>}

\* read returns n > 0 bytes, as in read_data, from a server that has data
\* whenever the client reads: the reads are not counted
read_steady(chunk) ==
    /\ pc = "poll"
    /\ ~Panicked(scene)
    /\ messages' = process_messages(chunk)
    /\ pc' = "process"
    /\ depth' = 0
    /\ attempts' = Attempts
    /\ polled' = "Some"
    /\ UNCHANGED <<scene, lastWrite, hist, reads>>

\* the session with a server that has data for every read
NextLive ==
    \/ scene_init
    \/ \E state \in {"Pressed", "Released"}, keycode \in KeyCodes, ok \in BOOLEAN :
           process_keyboard_input(state, keycode, ok)
    \/ \E ok \in BOOLEAN : update_begin(ok)
    \/ \E chunk \in SteadyChunks : read_steady(chunk)
    \/ process_next
    \/ read_closed
    \/ read_would_block
    \/ \E nonblocking_ok \in BOOLEAN : read_error_reconnected(nonblocking_ok)
    \/ read_error_reconnect_failed

\* the thread of the scene runs: a step that can be taken is taken, whatever
\* the server and the network answer
SpecLive == Init /\ [][NextLive]_vars /\ WF_vars(NextLive)

-----------------------------------------------------------------------------
(* The commands, read off their text *)

\* the word is a decimal number of an unsigned type
IsUnsigned(w) == w \in DOMAIN IntLiteral /\ IntLiteral[w] >= 0

\* the word is a decimal number of i32
IsSigned(w) == w \in DOMAIN IntLiteral

\* the line is `GAMESERVER update <count> ...` with a count that is a number
IsCountedUpdate(line) ==
    LET w == Words(line)
    IN  /\ Len(w) >= 3
        /\ w[1] = "GAMESERVER"
        /\ w[2] = "update"
        /\ IsUnsigned(w[3])

\* the count of the line and its fields after the count
Count(line) == IntLiteral[Words(line)[3]]
Fields(line) == SubSeq(Words(line), 4, Len(Words(line)))

\* the line is an update of the grammar: count triples of numbers
WellFormedUpdate(line) ==
    /\ IsCountedUpdate(line)
    /\ Len(Fields(line)) = 3 * Count(line)
    /\ \A i \in 0..(Count(line) - 1) :
          /\ IsUnsigned(Fields(line)[3 * i + 1])
          /\ IsSigned(Fields(line)[3 * i + 2])
          /\ IsSigned(Fields(line)[3 * i + 3])

\* the ids a well-formed update lists
ListedIds(line) ==
    {IntLiteral[Fields(line)[3 * i + 1]] : i \in 0..(Count(line) - 1)}

\* the server entities of a scene
Entities(s) == s.objects_from_server
Ids(s) == DOMAIN s.objects_from_server

\* the server entities of a scene bound to the model m
BoundTo(s, m) == {k \in Ids(s) : Entities(s)[k].model = m}

\* the last call of process_message panicked
DecodePanic ==
    /\ hist.called
    /\ ~Panicked(hist.before)
    /\ scene.panic \notin {"", "Failed to write to stream",
                           "unwrap on Err: set_nonblocking"}

-----------------------------------------------------------------------------
(* C1 *)

\* C1: after a well-formed update command has been applied, the key set of
\* objects_from_server is exactly the set of the ids the command lists: no id
\* of an earlier snapshot survives unless it is listed again, no listed id is
\* missing, and `update 0` empties the set.
C1_KeySetIsSnapshot ==
    (hist.called /\ WellFormedUpdate(hist.line)) =>
        /\ ~DecodePanic
        /\ Ids(scene) = ListedIds(hist.line)

\* an update that evicts an entity and creates another one
C1_Witness ==
    /\ hist.called
    /\ WellFormedUpdate(hist.line)
    /\ Ids(hist.before) \ ListedIds(hist.line) # {}
    /\ ListedIds(hist.line) \ Ids(hist.before) # {}
    /\ Ids(scene) = ListedIds(hist.line)

-----------------------------------------------------------------------------
(* C2 *)

\* C2: in every state the number of instance attaches made for server
\* entities minus the number of instance removals is the size of
\* objects_from_server; every server entity is bound to a model, and each
\* model of the server entities holds one instance per entity bound to it.
\* A call of process_message removes one instance for each entity it evicts
\* and none for an entity it keeps.
C2_InstanceAccounting ==
    /\ scene.attach_calls - scene.remove_calls = Cardinality(Ids(scene))
    /\ \A k \in Ids(scene) : Entities(scene)[k].model \in {PlayerModel, DefaultModel}
    /\ \A m \in {PlayerModel, DefaultModel} :
          m < Len(scene.models) =>
              scene.models[m + 1] = Cardinality(BoundTo(scene, m))
    /\ hist.called =>
          /\ scene.remove_calls - hist.before.remove_calls
                = Cardinality(Ids(hist.before) \ Ids(scene))
          /\ \A m \in {PlayerModel, DefaultModel} :
                hist.before.models[m + 1] - scene.models[m + 1]
                   = Cardinality(BoundTo(hist.before, m) \ Ids(scene))
                     - Cardinality(BoundTo(scene, m) \ Ids(hist.before))

\* an update has evicted two entities, one of each model, and created one
C2_Witness ==
    /\ hist.called
    /\ Cardinality(Ids(hist.before) \ Ids(scene)) = 2
    /\ Ids(scene) \ Ids(hist.before) # {}
    /\ scene.remove_calls = 2
    /\ scene.attach_calls = 3
    /\ hist.before.models[PlayerModel + 1] = 1

-----------------------------------------------------------------------------
(* C3 *)

\* the line is an update whose count is a number and whose fields after the
\* count are not 3 * count in number
FieldCountMismatch(line) ==
    /\ IsCountedUpdate(line)
    /\ Len(Fields(line)) # 3 * Count(line)

\* C3: an update command whose number of fields after the count is not
\* 3 * count is dropped: objects_from_server is after the command what it
\* was before it, and the command does not panic.
C3_MismatchIsDropped ==
    (hist.called /\ FieldCountMismatch(hist.line)) =>
        /\ ~DecodePanic
        /\ Entities(scene) = Entities(hist.before)

-----------------------------------------------------------------------------
(* C4 *)

\* the line is an update with a field, among the count and the 3 * count
\* fields after it, that is no number of its type
UpdateWithBadNumber(line) ==
    LET w == Words(line)
    IN  /\ Len(w) >= 3
        /\ w[1] = "GAMESERVER"
        /\ w[2] = "update"
        /\ \/ ~IsUnsigned(w[3])
           \/ /\ Len(Fields(line)) = 3 * Count(line)
              /\ \E i \in 0..(Count(line) - 1) :
                    \/ ~IsUnsigned(Fields(line)[3 * i + 1])
                    \/ ~IsSigned(Fields(line)[3 * i + 2])
                    \/ ~IsSigned(Fields(line)[3 * i + 3])

\* C4: when a numeric field of an update command does not parse, no triple
\* of the command is applied: no entity is created, moved or evicted and no
\* model instance is attached or removed.
C4_AllOrNothing ==
    (hist.called /\ UpdateWithBadNumber(hist.line)) =>
        /\ Entities(scene) = Entities(hist.before)
        /\ scene.models = hist.before.models
        /\ scene.attach_calls = hist.before.attach_calls
        /\ scene.remove_calls = hist.before.remove_calls

-----------------------------------------------------------------------------
(* C5 *)

\* C5: whatever the chunks received and the outcomes of the reads, of the
\* reconnects and of the writes, the session never panics.
C5_NoCrash == ~Panicked(scene)

-----------------------------------------------------------------------------
(* C6 *)

\* what C6 observes of a scene
Reconciled(s) ==
    [entities |-> Entities(s), models |-> s.models,
     attach_calls |-> s.attach_calls, remove_calls |-> s.remove_calls]

\* C6: when a well-formed update command is applied a second time right
\* after the first, the ids, the positions and the models of the entities and
\* the attach and remove counts are after the second application what they
\* were after the first.
C6_Idempotent ==
    (hist.called /\ hist.repeated /\ WellFormedUpdate(hist.line)) =>
        Reconciled(scene) = Reconciled(hist.before)

\* a snapshot of two entities applied twice in a row
C6_Witness ==
    /\ hist.called
    /\ hist.repeated
    /\ WellFormedUpdate(hist.line)
    /\ Cardinality(Ids(scene)) = 2
    /\ Reconciled(scene) = Reconciled(hist.before)

-----------------------------------------------------------------------------
(* C7 *)

\* C7: one call of pull_messages by update makes at most one reconnect
\* attempt, whatever the read retried after a reconnect returns.
C7_OneReconnectPerCall == attempts <= 1

-----------------------------------------------------------------------------
(* C8 *)

\* C8: the player id is 0 until the first init command is applied, and from
\* then on it is the value of the last init command applied: the last value
\* wins, the same init applied again changes nothing, and no other command
\* and no other operation changes it.
C8_PlayerIdIsLastInit ==
    /\ hist.lastInit = {} => scene.player_id = 0
    /\ hist.lastInit # {} => hist.lastInit = {scene.player_id}

\* a second init with another value has been applied
C8_Witness ==
    /\ hist.called
    /\ IsInit(hist.line)
    /\ hist.before.player_id # 0
    /\ hist.before.player_id # scene.player_id
    /\ hist.lastInit = {scene.player_id}

-----------------------------------------------------------------------------
(* C9 *)

\* the scene after `init 7` and `update 2 7 1 2 9 3 4`
C9_TwoEntities ==
    (7 :> [x |-> 1, z |-> 2, model |-> PlayerModel]) @@
    (9 :> [x |-> 3, z |-> 4, model |-> DefaultModel])

\* C9: an entity that a command creates is bound to the player model when
\* its id is the player id held at that moment, and to the default model
\* otherwise.  After `init 7`, `update 2 7 1 2 9 3 4` on an empty set gives
\* {7:(1,2), 9:(3,4)} with 7 on the player model and 9 on the default one,
\* and then `update 1 9 5 6` gives {9:(5,6)}.
C9_ModelSelection ==
    hist.called =>
        /\ \A id \in Ids(scene) \ Ids(hist.before) :
              Entities(scene)[id].model =
                  IF id = hist.before.player_id THEN PlayerModel ELSE DefaultModel
        /\ (/\ hist.line = Update79
            /\ hist.before.player_id = 7
            /\ Ids(hist.before) = {}) => Entities(scene) = C9_TwoEntities
        /\ (/\ hist.line = Update9
            /\ Entities(hist.before) = C9_TwoEntities) =>
                 Entities(scene) = (9 :> [x |-> 5, z |-> 6, model |-> DefaultModel])

\* the end of the scenario
C9_Witness ==
    /\ hist.called
    /\ hist.line = Update9
    /\ hist.before.player_id = 7
    /\ Entities(hist.before) = C9_TwoEntities
    /\ Entities(scene) = (9 :> [x |-> 5, z |-> 6, model |-> DefaultModel])

-----------------------------------------------------------------------------
(* C10 *)

\* C10: a failed send, of the request `update` of a tick or of a `move`
\* command, leaves the session usable: it does not panic.
C10_FailedSendIsReported == ~lastWrite.ok => ~Panicked(scene)

-----------------------------------------------------------------------------
(* C11 *)

\* the line is empty, does not begin with the sentinel, is the sentinel
\* alone, or has a verb that is neither init nor update
Ignorable(line) ==
    LET w == Words(line)
    IN  \/ Len(w) = 0
        \/ w[1] # "GAMESERVER"
        \/ Len(w) = 1
        \/ w[2] \notin {"init", "update"}

\* C11: a command that is empty, does not begin with the sentinel, is the
\* sentinel with no verb or has an unrecognized verb is dropped silently:
\* the server entities, the player id, the models and the attach and remove
\* counts are unchanged, and nothing panics.
C11_IgnoredIsDropped ==
    (hist.called /\ Ignorable(hist.line)) =>
        /\ ~DecodePanic
        /\ Reconciled(scene) = Reconciled(hist.before)
        /\ scene.player_id = hist.before.player_id

-----------------------------------------------------------------------------
(* C12 *)

\* the step in which a call of pull_messages by update returns None for the
\* reason why
ReturnsNone(why) == pc = "poll" /\ pc' = "idle" /\ polled' = why

\* C12: a read that fails with WouldBlock makes pull_messages return None
\* with no reconnect attempt, and leaves the stream, the server entities and
\* the player id as they were.
C12_WouldBlockIsNoError ==
    [][ReturnsNone("None: would block") =>
          /\ attempts' = Attempts
          /\ scene'.stream = scene.stream
          /\ Entities(scene') = Entities(scene)
          /\ scene'.player_id = scene.player_id
          /\ ~Panicked(scene')]_vars

\* a tick of a session with entities and a player id has ended on WouldBlock
C12_Witness ==
    /\ pc = "idle"
    /\ polled = "None: would block"
    /\ attempts = 0
    /\ Ids(scene) # {}
    /\ scene.player_id # 0

-----------------------------------------------------------------------------
(* C13 *)

\* the line is one of the two parts of `GAMESERVER update 1 9 5 6` cut after
\* the id by the reads
IsHalfOfUpdate(line) == Words(line) \in {Words(Update9a), Words(Update9b)}

\* C13: nothing of a read is kept for the next one (process_messages starts
\* from the text of one read alone), so each part of a well-formed update cut
\* in two by the reads is processed as a command of its own: it is dropped as
\* malformed, with the server entities unchanged and without panic.
C13_HalvesAreDropped ==
    /\ pc = "poll" => messages = <<>>
    /\ (hist.called /\ IsHalfOfUpdate(hist.line)) =>
          /\ ~DecodePanic
          /\ Entities(scene) = Entities(hist.before)

-----------------------------------------------------------------------------
(* C14 *)

\* the id, the x and the z of the i-th triple of a well-formed update
TripleId(line, i) == IntLiteral[Fields(line)[3 * i + 1]]
TripleX(line, i) == IntLiteral[Fields(line)[3 * i + 2]]
TripleZ(line, i) == IntLiteral[Fields(line)[3 * i + 3]]

\* the last triple of a well-formed update that lists the id
LastListing(line, id) ==
    CHOOSE i \in 0..(Count(line) - 1) :
        /\ TripleId(line, i) = id
        /\ \A j \in 0..(Count(line) - 1) : TripleId(line, j) = id => j <= i

\* the line lists an id more than once
HasDuplicateId(line) ==
    \E i, j \in 0..(Count(line) - 1) : i # j /\ TripleId(line, i) = TripleId(line, j)

\* C14: after a well-formed update every listed entity is at the position of
\* its last listing (as f32 values); for an id that was not present there is
\* one entity and one attach, also when the id is listed more than once, and
\* nothing panics.
C14_LastListingWins ==
    (hist.called /\ WellFormedUpdate(hist.line)) =>
        /\ ~DecodePanic
        /\ \A id \in ListedIds(hist.line) :
              /\ id \in Ids(scene)
              /\ Entities(scene)[id].x =
                    as_f32(TripleX(hist.line, LastListing(hist.line, id)))
              /\ Entities(scene)[id].z =
                    as_f32(TripleZ(hist.line, LastListing(hist.line, id)))
        /\ scene.attach_calls - hist.before.attach_calls
              = Cardinality(ListedIds(hist.line) \ Ids(hist.before))

\* a new id listed twice with two positions: one entity, at the second
\* position, with one attach
C14_Witness ==
    /\ hist.called
    /\ WellFormedUpdate(hist.line)
    /\ HasDuplicateId(hist.line)
    /\ Ids(hist.before) = {}
    /\ Entities(scene) = (7 :> [x |-> 3, z |-> 4, model |-> DefaultModel])
    /\ scene.attach_calls = 1

-----------------------------------------------------------------------------
(* C15 *)

\* the position of an entity
Position(o) == <<o.x, o.z>>

\* C15: a well-formed update that lists an id that is present overwrites the
\* position of that entity and nothing else of it: its model is the one it
\* had, and the command makes attach calls for the ids it creates only and
\* remove calls for the ids it evicts only.
C15_PresentIsMovedOnly ==
    (hist.called /\ WellFormedUpdate(hist.line)) =>
        /\ \A id \in ListedIds(hist.line) \cap Ids(hist.before) :
              /\ id \in Ids(scene)
              /\ Entities(scene)[id].model = Entities(hist.before)[id].model
        /\ scene.attach_calls - hist.before.attach_calls
              = Cardinality(Ids(scene) \ Ids(hist.before))
        /\ scene.remove_calls - hist.before.remove_calls
              = Cardinality(Ids(hist.before) \ Ids(scene))
        /\ \A m \in {PlayerModel, DefaultModel} :
              scene.models[m + 1] - hist.before.models[m + 1]
                 = Cardinality(BoundTo(scene, m) \ Ids(hist.before))
                   - Cardinality(BoundTo(hist.before, m) \ Ids(scene))

\* an update has moved an entity that was present and whose model is not the
\* one an entity of its id would be created with now, and nothing was attached
C15_Witness ==
    /\ hist.called
    /\ WellFormedUpdate(hist.line)
    /\ \E id \in ListedIds(hist.line) \cap Ids(hist.before) :
          /\ Position(Entities(scene)[id]) # Position(Entities(hist.before)[id])
          /\ Entities(scene)[id].model = Entities(hist.before)[id].model
          /\ Entities(scene)[id].model # select_model(hist.before, id)
    /\ scene.attach_calls = hist.before.attach_calls

-----------------------------------------------------------------------------
(* C16 *)

\* the lines of the chunk that are still to be processed
LaterLines == IF pc = "process" THEN messages ELSE <<>>

\* C16: a command whose numbers do not decode is dropped and the lines after
\* it in the same chunk are still processed: after such a command the Entity
\* Set is what it was, and while later lines of the chunk wait the scene has
\* not panicked.
C16_DecodeFailureIsLocal ==
    (hist.called /\ UpdateWithBadNumber(hist.line) /\ LaterLines # <<>>) =>
        /\ ~Panicked(scene)
        /\ Entities(scene) = Entities(hist.before)

-----------------------------------------------------------------------------
(* C17 *)

\* what pull_messages has returned when it returned None
NoneResults ==
    {"None: closed", "None: would block", "None: reconnect failed"}

\* the tick sends its request `update` when it starts, and nothing after it
OneRequestPerTick ==
    /\ (pc = "idle" /\ pc' = "poll") =>
           lastWrite' = [bytes |-> <<"update", NL>>, ok |-> TRUE]
    /\ (pc \in {"poll", "process"}) => lastWrite' = lastWrite

\* the lines waiting change when a chunk arrives while none is waiting, and
\* when the first of them is handed to process_message; the server's state of
\* the scene changes in the latter step only
ChunksInOrder ==
    /\ messages' # messages =>
          \/ /\ pc = "poll" /\ pc' = "process"
             /\ messages = <<>>
             /\ polled' = "Some"
             /\ reads' = reads + 1
          \/ /\ pc = "process"
             /\ messages' = Tail(messages)
             /\ hist'.called
             /\ hist'.line = Head(messages)
             /\ hist'.before = scene
    /\ (Entities(scene') # Entities(scene)
          \/ scene'.attach_calls # scene.attach_calls
          \/ scene'.remove_calls # scene.remove_calls
          \/ scene'.player_id # scene.player_id
          \/ hist' # hist) =>
             (pc = "process" /\ messages' = Tail(messages))
    /\ (pc = "process" /\ pc' # "process") =>
             (pc' = "poll" /\ messages' = <<>>)

\* the loop ends when pull_messages returns None, and only then
StopsAtFirstNone ==
    /\ (pc = "poll" /\ pc' = "idle") =>
           (polled' \in NoneResults /\ messages = <<>>)
    /\ (pc = "poll" /\ pc' = "poll") => UNCHANGED <<polled, messages>>
    /\ (pc = "poll" /\ pc' = "process") => polled' = "Some"

\* the camera moves when the loop has ended, to the player's entity
CameraAfterChunks ==
    /\ scene'.camera # scene.camera => (pc = "poll" /\ pc' = "idle")
    /\ (pc = "poll" /\ pc' = "idle" /\ player(scene) # {}) =>
           \A p \in player(scene) : scene'.camera.target = Position(p)

\* C17: a tick sends one request `update`, then gives every chunk that
\* pull_messages returns to process_messages, whose lines are processed once
\* each, in their order, before pull_messages is called again; the loop ends
\* at the first None, and the camera is moved after it and not before.
C17_TickDrains ==
    [][OneRequestPerTick /\ ChunksInOrder /\ StopsAtFirstNone
         /\ CameraAfterChunks]_vars

\* two chunks have been applied in one tick, the second the update that ended
\* the first, and the camera has not moved to the player's entity yet
C17_Witness ==
    /\ pc = "poll"
    /\ reads = 2
    /\ messages = <<>>
    /\ hist.repeated
    /\ WellFormedUpdate(hist.line)
    /\ player(hist.before) # {}
    /\ \E p \in player(scene) : Position(p) # scene.camera.target
    /\ scene.camera.target = <<0, 0>>

-----------------------------------------------------------------------------
(* C18 *)

\* C18: every tick completes: whenever update is in its loop, it leaves the
\* loop later (or the scene has panicked), whatever the reads return, a read
\* that has data every time included.
C18_TickCompletes == (pc \in {"poll", "process"}) ~> (pc = "idle" \/ Panicked(scene))

-----------------------------------------------------------------------------
(* C19 *)

\* C19: the model of an entity is chosen when the entity is created, from the
\* player id of that moment, and no step changes it while the entity is in
\* the map; a step that applies an init command changes no entity and attaches
\* and removes nothing.
C19_ModelIsDecidedOnce ==
    [][/\ \A id \in Ids(scene) \cap Ids(scene') :
             Entities(scene')[id].model = Entities(scene)[id].model
       /\ \A id \in Ids(scene') \ Ids(scene) :
             Entities(scene')[id].model =
                 IF id = scene.player_id THEN PlayerModel ELSE DefaultModel
       /\ (pc = "process" /\ IsInit(Head(messages))) =>
             /\ Entities(scene') = Entities(scene)
             /\ scene'.models = scene.models
             /\ scene'.attach_calls = scene.attach_calls
             /\ scene'.remove_calls = scene.remove_calls]_vars

\* an init has just changed the player id: the entity of the new player id
\* carries the default model and another entity the player's model
C19_Witness ==
    /\ hist.called
    /\ IsInit(hist.line)
    /\ hist.before.player_id # scene.player_id
    /\ scene.player_id \in BoundTo(scene, DefaultModel)
    /\ BoundTo(scene, PlayerModel) # {}

-----------------------------------------------------------------------------
(* C20 *)

\* C20: a step in which pull_messages returns None because the read returned
\* 0 bytes makes no reconnect attempt and keeps the stream, the entities and
\* the player id; between two ticks, and when a tick starts, the stream and
\* the entities stay as well, so that ticks whose reads return 0 bytes leave
\* the Entity Set at its last snapshot.
C20_ClosedIsNotReconnected ==
    [][/\ ReturnsNone("None: closed") =>
             /\ attempts' = Attempts
             /\ depth' = 0
             /\ scene'.stream = scene.stream
             /\ Entities(scene') = Entities(scene)
             /\ scene'.player_id = scene.player_id
             /\ ~Panicked(scene')
       /\ pc = "idle" =>
             /\ scene'.stream = scene.stream
             /\ Entities(scene') = Entities(scene)]_vars

\* a tick has ended on a closed connection: the first stream is still the
\* scene's, and the entities of the last snapshot are there
C20_Witness ==
    /\ pc = "idle"
    /\ polled = "None: closed"
    /\ attempts = 0
    /\ scene.stream = 0
    /\ reads > 0
    /\ Ids(scene) # {}
    /\ lastWrite.bytes = <<"update", NL>>

=============================================================================
